---- MODULE Spec2Model ----
(***************************************************************************)
(* Model of fftranscode.py: the ffmpeg argument builder and the supervisor *)
(* of the single transcode child process.                                  *)
(*                                                                         *)
(* Python strings are TLA+ strings (TLC evaluates Len, SubSeq and \o on    *)
(* them).  An optional value (Python None or a value) is a set with at     *)
(* most one element: None is {} and a present value v is {v}.              *)
(***************************************************************************)
EXTENDS Integers, Sequences, FiniteSets, TLC

(***************************************************************************)
(* Bounds of the model.                                                    *)
(***************************************************************************)
\* self.max_waits: 604800 in the source (fftranscode.py:172), scaled down.
max_waits == 3

\* Number of SIGINT deliveries considered in one run.
MaxInterrupts == 2

(***************************************************************************)
(* Optional values.                                                        *)
(***************************************************************************)
None == {}

Some(v) == {v}

TheVal(o) == CHOOSE v \in o : TRUE

(***************************************************************************)
(* Strings.                                                                *)
(***************************************************************************)
\* The character of s at 1-based position i.
CharAt(s, i) == SubSeq(s, i, i)

\* Whitespace as str.split() with no argument sees it (str.isspace): space,
\* \t, \n, \r, \f, then \v, \x1c, \x1d, \x1e, \x1f, \x85 and \xa0 written
\* as the characters themselves.  The strings of this model hold the
\* characters up to U+00FF; the Unicode spaces beyond it are outside.
IsSpace(c) == c \in {" ", "\t", "\n", "\r", "\f",
                     "", "", "", "", "", "", " "}

\* s[:-4]
StripLast4(s) == IF Len(s) > 4 THEN SubSeq(s, 1, Len(s) - 4) ELSE ""

\* "%s" % v for a value that is None or a string.
FmtS(o) == IF o = None THEN "None" ELSE TheVal(o)

\* str.split(): the maximal runs of non-whitespace characters, in order.
RECURSIVE SplitFrom(_, _, _)
SplitFrom(s, i, cur) ==
    IF i > Len(s)
    THEN IF cur = "" THEN <<>> ELSE <<cur>>
    ELSE IF IsSpace(CharAt(s, i))
         THEN IF cur = ""
              THEN SplitFrom(s, i + 1, "")
              ELSE <<cur>> \o SplitFrom(s, i + 1, "")
         ELSE SplitFrom(s, i + 1, cur \o CharAt(s, i))

split(s) == SplitFrom(s, 1, "")

(***************************************************************************)
(* Argument builder.                                                       *)
(***************************************************************************)
\* gen_output_file_name with the test of the tune option dropped.
gen_output_file_name_TuneAlways(s) ==
    LET file_name == StripLast4(s.input_file) \o " - ffmpeg:" \o FmtS(s.ffmpeg_ver)
                       \o "_c:" \o s.codec_lib \o "_p:" \o s.profile
                       \o "_l:" \o s.level \o "_r:" \o s.preset
                       \o "_f:" \o s.crf
    IN  file_name \o "_t:" \o s.tune \o ".mkv"

\* Fftranscode.gen_output_file_name
gen_output_file_name(s) ==
    LET file_name == StripLast4(s.input_file) \o " - ffmpeg:" \o FmtS(s.ffmpeg_ver)
                       \o "_c:" \o s.codec_lib \o "_p:" \o s.profile
                       \o "_l:" \o s.level \o "_r:" \o s.preset
                       \o "_f:" \o s.crf
        tuned     == IF s.tune # "" THEN file_name \o "_t:" \o s.tune ELSE file_name
    IN  tuned \o ".mkv"

\* The literal list that gen_transcode_args starts from.
BaseArgs(s) ==
    << "ffmpeg", "-hide_banner", "-n", "-i", s.input_file, "-map", "0",
       "-codec:a", "copy", "-codec:s", "copy", "-codec:v", s.codec_lib,
       "-profile:v", s.profile, "-level", s.level, "-preset", s.preset,
       "-crf", s.crf >>

\* gen_transcode_args with the stdin flag appended after the output path.
gen_transcode_args_NostdinLast(s) ==
    LET a0  == BaseArgs(s)
        a1  == IF s.niced = TRUE THEN <<"nice">> \o a0 ELSE a0
        a2  == IF s.tune # "" THEN a1 \o <<"-tune", s.tune>> ELSE a1
        a3  == IF s.extra # "" THEN a2 \o split(s.extra) ELSE a2
        out == IF s.output_file = "" THEN gen_output_file_name(s) ELSE s.output_file
        a4  == Append(a3, out)
        a5  == IF s.interactive = FALSE THEN Append(a4, "-nostdin") ELSE a4
    IN  [args |-> a5, self |-> [s EXCEPT !.output_file = out]]

\* gen_transcode_args with the test of the tune option dropped.
gen_transcode_args_AlwaysTune(s) ==
    LET a0  == BaseArgs(s)
        a1  == IF s.niced = TRUE THEN <<"nice">> \o a0 ELSE a0
        a2  == a1 \o <<"-tune", s.tune>>
        a3  == IF s.extra # "" THEN a2 \o split(s.extra) ELSE a2
        a4  == IF s.interactive = FALSE THEN Append(a3, "-nostdin") ELSE a3
        out == IF s.output_file = "" THEN gen_output_file_name(s) ELSE s.output_file
    IN  [args |-> Append(a4, out), self |-> [s EXCEPT !.output_file = out]]

\* gen_transcode_args with the extra tokens appended before the tune flag.
gen_transcode_args_ExtraFirst(s) ==
    LET a0  == BaseArgs(s)
        a1  == IF s.niced = TRUE THEN <<"nice">> \o a0 ELSE a0
        a2  == IF s.extra # "" THEN a1 \o split(s.extra) ELSE a1
        a3  == IF s.tune # "" THEN a2 \o <<"-tune", s.tune>> ELSE a2
        a4  == IF s.interactive = FALSE THEN Append(a3, "-nostdin") ELSE a3
        out == IF s.output_file = "" THEN gen_output_file_name(s) ELSE s.output_file
    IN  [args |-> Append(a4, out), self |-> [s EXCEPT !.output_file = out]]

\* gen_transcode_args with 'nice' inserted at index 1 instead of 0.
gen_transcode_args_NiceSecond(s) ==
    LET a0  == BaseArgs(s)
        a1  == IF s.niced = TRUE THEN <<Head(a0), "nice">> \o Tail(a0) ELSE a0
        a2  == IF s.tune # "" THEN a1 \o <<"-tune", s.tune>> ELSE a1
        a3  == IF s.extra # "" THEN a2 \o split(s.extra) ELSE a2
        a4  == IF s.interactive = FALSE THEN Append(a3, "-nostdin") ELSE a3
        out == IF s.output_file = "" THEN gen_output_file_name(s) ELSE s.output_file
    IN  [args |-> Append(a4, out), self |-> [s EXCEPT !.output_file = out]]

\* gen_transcode_args generating the output name whatever was configured.
gen_transcode_args_AlwaysGenerate(s) ==
    LET a0  == BaseArgs(s)
        a1  == IF s.niced = TRUE THEN <<"nice">> \o a0 ELSE a0
        a2  == IF s.tune # "" THEN a1 \o <<"-tune", s.tune>> ELSE a1
        a3  == IF s.extra # "" THEN a2 \o split(s.extra) ELSE a2
        a4  == IF s.interactive = FALSE THEN Append(a3, "-nostdin") ELSE a3
        out == gen_output_file_name(s)
    IN  [args |-> Append(a4, out), self |-> [s EXCEPT !.output_file = out]]

\* Fftranscode.gen_transcode_args: the returned list and the object after
\* the call (the method assigns self.output_file when it was empty).
gen_transcode_args(s) ==
    LET a0  == BaseArgs(s)
        a1  == IF s.niced = TRUE THEN <<"nice">> \o a0 ELSE a0
        a2  == IF s.tune # "" THEN a1 \o <<"-tune", s.tune>> ELSE a1
        a3  == IF s.extra # "" THEN a2 \o split(s.extra) ELSE a2
        a4  == IF s.interactive = FALSE THEN Append(a3, "-nostdin") ELSE a3
        out == IF s.output_file = "" THEN gen_output_file_name(s) ELSE s.output_file
    IN  [args |-> Append(a4, out), self |-> [s EXCEPT !.output_file = out]]

(***************************************************************************)
(* Engine version banner.  The bytes the version child writes are a string *)
(* with one character per byte (Latin-1).                                  *)
(***************************************************************************)
BannerPrefix == "ffmpeg version "

BannerSuffix == " Copyright"

\* The ends j of the candidate groups of
\* re.compile(b'^ffmpeg version (.+) Copyright').match(b): the banner starts
\* with the prefix, the group b[16..j] is non-empty and holds no newline
\* ('.' does not match one), and the suffix follows it.
GroupEnds(b) ==
    IF Len(b) >= Len(BannerPrefix) /\ SubSeq(b, 1, Len(BannerPrefix)) = BannerPrefix
    THEN { j \in (Len(BannerPrefix) + 1)..(Len(b) - Len(BannerSuffix)) :
             /\ SubSeq(b, j + 1, j + Len(BannerSuffix)) = BannerSuffix
             /\ \A i \in (Len(BannerPrefix) + 1)..j : CharAt(b, i) # "\n" }
    ELSE {}

\* m.groups()[0] when the pattern matches (the '+' is greedy: the longest
\* group), None when it does not.
VersionMatch(b) ==
    IF GroupEnds(b) = {} THEN None
    ELSE LET j == CHOOSE k \in GroupEnds(b) : \A l \in GroupEnds(b) : l <= k
         IN  Some(SubSeq(b, Len(BannerPrefix) + 1, j))

\* The characters U+0080 to U+00FF in order: the bytes 0x80 to 0xFF of a
\* bytes object, and the text characters of those code points.
Latin1High ==
    ""
    \o " ¡¢£¤¥¦§¨©ª«¬­®¯°±²³´µ¶·¸¹º»¼½¾¿"
    \o "ÀÁÂÃÄÅÆÇÈÉÊËÌÍÎÏÐÑÒÓÔÕÖ×ØÙÚÛÜÝÞß"
    \o "àáâãäåæçèéêëìíîïðñòóôõö÷øùúûüýþÿ"

\* The value of the byte at position i of the bytes g when it is 0x80 or
\* more, and 0 for an ASCII byte.
ByteAt(g, i) ==
    IF i > Len(g) THEN 0
    ELSE LET k == { j \in 1..Len(Latin1High) : CharAt(Latin1High, j) = CharAt(g, i) }
         IN  IF k = {} THEN 0 ELSE 127 + (CHOOSE j \in k : TRUE)

\* The byte at position i of g is a UTF-8 continuation byte (0x80-0xBF).
IsCont(g, i) == ByteAt(g, i) \in 128..191

\* The number of bytes of the UTF-8 sequence that starts at position i of
\* g, as the strict decoder of bytes.decode('UTF-8') accepts it: no overlong
\* form (0xC0, 0xC1, 0xE0 0x80-0x9F, 0xF0 0x80-0x8F), no surrogate (0xED
\* 0xA0-0xBF), nothing above U+10FFFF (0xF4 0x90-, 0xF5-0xFF), no lone
\* continuation byte and no cut sequence; 0 when there is none.
Utf8Len(g, i) ==
    LET b0 == ByteAt(g, i)
        b1 == ByteAt(g, i + 1)
    IN  IF b0 = 0 THEN 1
        ELSE IF b0 \in 194..223 /\ IsCont(g, i + 1) THEN 2
        ELSE IF /\ b0 \in 224..239
                /\ b1 \in (IF b0 = 224 THEN 160..191
                            ELSE IF b0 = 237 THEN 128..159 ELSE 128..191)
                /\ IsCont(g, i + 2)
        THEN 3
        ELSE IF /\ b0 \in 240..244
                /\ b1 \in (IF b0 = 240 THEN 144..191
                            ELSE IF b0 = 244 THEN 128..143 ELSE 128..191)
                /\ IsCont(g, i + 2) /\ IsCont(g, i + 3)
        THEN 4
        ELSE 0

RECURSIVE DecodesFrom(_, _)
DecodesFrom(g, i) ==
    IF i > Len(g) THEN TRUE
    ELSE IF Utf8Len(g, i) = 0 THEN FALSE
    ELSE DecodesFrom(g, i + Utf8Len(g, i))

\* bytes.decode('UTF-8') succeeds (line 267).
Decodes(g) == DecodesFrom(g, 1)

\* The code point of the UTF-8 sequence of n bytes at position i of g.
CodePoint(g, i, n) ==
    IF n = 2 THEN (ByteAt(g, i) - 192) * 64 + (ByteAt(g, i + 1) - 128)
    ELSE IF n = 3 THEN (ByteAt(g, i) - 224) * 4096 + (ByteAt(g, i + 1) - 128) * 64
                         + (ByteAt(g, i + 2) - 128)
    ELSE (ByteAt(g, i) - 240) * 262144 + (ByteAt(g, i + 1) - 128) * 4096
           + (ByteAt(g, i + 2) - 128) * 64 + (ByteAt(g, i + 3) - 128)

\* The character of a code point above U+007F.  The strings of this model
\* hold the characters up to U+00FF: beyond it the text is not defined.
Chr(cp) == CharAt(Latin1High, cp - 127)

RECURSIVE DecodeFrom(_, _)
DecodeFrom(g, i) ==
    IF i > Len(g) THEN ""
    ELSE LET n == Utf8Len(g, i)
         IN  (IF n = 1 THEN CharAt(g, i) ELSE Chr(CodePoint(g, i, n)))
               \o DecodeFrom(g, i + n)

\* The text that bytes.decode('UTF-8') gives for bytes that decode.
Decode(g) == DecodeFrom(g, 1)

(***************************************************************************)
(* Inputs: the resolved command line options and the environment.          *)
(***************************************************************************)
InputFiles == {"", "movie.mp4", "clip.mpeg"}

OutputFiles == {"", "out.mkv"}

Tunes == {"", "film"}

Extras == {"", "-x 1 -y 2", "-tune grain", "  ", "-p\r9\f", "-q7 -z"}

SubprocessOuts == {"-", "log.txt"}

\* What `ffmpeg -version` may print, a character per byte: versions in
\* ASCII, one with the byte 0xFF, one with a lone 0xE9 (neither is UTF-8)
\* and one with the bytes 0xC3 0xA9, the UTF-8 form of U+00E9.
Banners == { "ffmpeg version 6.0 Copyright (c) 2000-2023",
             "ffmpeg version 7.1 Copyright (c) 2000-2024",
             "ffmpeg version ÿ6.0 Copyright (c) 2000-2023",
             "ffmpeg version é6.0 Copyright (c) 2000-2023",
             "ffmpeg version 6.0-Ã© Copyright (c) 2000-2023",
             "built with gcc\nffmpeg version 6.0 Copyright (c)",
             "" }

\* get_ffencode_version, lines 262-270, on each banner: the version it
\* stores in self.ffmpeg_ver, None for a banner on which it raises.
StoredVersion ==
    [ b \in Banners |->
        IF VersionMatch(b) # None /\ Decodes(TheVal(VersionMatch(b)))
        THEN Some(Decode(TheVal(VersionMatch(b))))
        ELSE None ]

\* Popen.returncode of a transcode child that ends without the supervisor's
\* kill: an exit code, or minus the number of the signal that ended it.
ExitCodes == {0, 1, 137, -9, -15}

OptionSets ==
    [ input_file : InputFiles, output_file : OutputFiles, not_nice : BOOLEAN,
      interactive : BOOLEAN, codec : {"libx264"}, profile : {"High"},
      level : {"6.2"}, preset : {"9"}, crf : {"17"}, tune : Tunes,
      extra : Extras, subprocess_out_file : SubprocessOuts ]

\* The command lines of the runs of the whole program: the options that
\* only the argument builder reads are held at one value each.
RunOptionSets ==
    { o \in OptionSets : /\ o.input_file \in {"", "movie.mp4"}
                          /\ o.not_nice = FALSE
                          /\ o.tune = "film"
                          /\ o.extra = "-x 1 -y 2" }

(***************************************************************************)
(* State.                                                                  *)
(***************************************************************************)
VARIABLES
    options,       \* the parsed command line (main, line 307)
    self,          \* the attributes of the Fftranscode object
    pc,            \* position of the main thread
    exc,           \* the exception being raised or handled ("none" if none)
    handling,      \* inside the except clause of main
    cancel_exit,   \* the exit argument of the running cancel_transcode call
    args,          \* the local args of transcode()
    outfile,       \* the local outfile of transcode(): unopened, stdout, file
    exit_code,     \* the top-level exit_code of main (line 316)
    status,        \* exit status of the supervising process, None while alive
    child,         \* the transcode child: none, running, zombie, reaped
    child_code,    \* the code the transcode child ended with
    sp_returncode, \* self.sp.returncode
    lock,          \* self.sp._waitpid_lock is taken
    sts,           \* the status a waitpid has returned and Popen not yet stored
    verChild,      \* the `ffmpeg -version` child: none, running, zombie, reaped
    ver_out,       \* what the version child wrote to its stdout
    kill_called,   \* self.sp.kill() has been called
    kill_sent,     \* self.sp.kill() has sent SIGKILL
    interrupts,    \* number of SIGINT delivered so far
    intr_pc,       \* position of the main thread at the first SIGINT
    intr_child,    \* state of the transcode child at the first SIGINT
    passed,        \* what the run has been through: open_raised (open() of
                   \* line 274 raised), output_stored (line 252 executed),
                   \* timeout_raised (line 297 raised), returned (line 316
                   \* assigned the value transcode() returned)
    sleeps,        \* number of completed time.sleep calls
    polls          \* number of completed self.sp.poll() calls of handle_subprocess

vars == << options, self, pc, exc, handling, cancel_exit, args, outfile, exit_code,
           status, child, child_code, sp_returncode, lock, sts, verChild, ver_out,
           kill_called, kill_sent, interrupts, intr_pc, intr_child, passed,
           sleeps, polls >>

\* The Popen object of the transcode child.
popenVars == << sp_returncode, lock, sts, kill_called, kill_sent >>

procVars == << child, child_code, verChild, ver_out, popenVars >>

intrVars == << interrupts, intr_pc, intr_child >>

histVars == << intrVars, passed >>

\* Fftranscode.__init__ as main calls it (line 313).
NewFftranscode(o) ==
    [ niced |-> ~o.not_nice, input_file |-> o.input_file,
      output_file |-> o.output_file, codec_lib |-> o.codec,
      profile |-> o.profile, level |-> o.level, preset |-> o.preset,
      crf |-> o.crf, tune |-> o.tune, extra |-> o.extra,
      subprocess_out |-> o.subprocess_out_file, interactive |-> o.interactive,
      num_waits |-> 0, exit_code |-> None, sp |-> None, ffmpeg_ver |-> None,
      running |-> None ]

\* The object is built from the options without side effects, so it is
\* already present in the initial state; main tests the input file first.
Init ==
    /\ options \in RunOptionSets
    /\ self = NewFftranscode(options)
    /\ pc = "main"
    /\ exc = "none"
    /\ handling = FALSE
    /\ cancel_exit = FALSE
    /\ args = <<>>
    /\ outfile = "unopened"
    /\ exit_code = None
    /\ status = None
    /\ child = "none"
    /\ child_code = None
    /\ sp_returncode = None
    /\ lock = FALSE
    /\ sts = None
    /\ verChild = "none"
    /\ ver_out = ""
    /\ kill_called = FALSE
    /\ kill_sent = FALSE
    /\ interrupts = 0
    /\ intr_pc = "none"
    /\ intr_child = "none"
    /\ passed = {}
    /\ sleeps = 0
    /\ polls = 0

(***************************************************************************)
(* The main thread.  A step ends where the state the rest of the program   *)
(* can see has changed, so that an interrupt can fall between any two      *)
(* changes.                                                                *)
(***************************************************************************)
Alive == status = None

\* An exception raised inside the try block of main reaches its except
\* clause (line 317); raised anywhere else it is unhandled and ends the
\* interpreter with status 1 (after line 316 and before sys.exit at line 326
\* the try block is over).
Raise(e) ==
    /\ exc' = e
    /\ IF handling \/ pc \in {"returned"}
       THEN /\ pc' = "exited"
            /\ status' = Some(1)
            /\ handling' = handling
       ELSE /\ pc' = "except"
            /\ status' = status
            /\ handling' = TRUE

\* Main with a test that an empty input file passes.
Main_NoInputCheck ==
    /\ Alive /\ pc = "main"
    /\ IF Len(options.input_file) >= 0
       THEN pc' = "install" /\ status' = status
       ELSE pc' = "exited" /\ status' = Some(1)
    /\ UNCHANGED << options, outfile, self, exc, handling, cancel_exit, args, exit_code,
                    procVars, histVars, sleeps, polls >>

\* main, lines 311 and 322-324: the input file must be set.
Main ==
    /\ Alive /\ pc = "main"
    /\ IF Len(options.input_file) > 0
       THEN pc' = "install" /\ status' = status
       ELSE pc' = "exited" /\ status' = Some(1)
    /\ UNCHANGED << options, outfile, self, exc, handling, cancel_exit, args, exit_code,
                    procVars, histVars, sleeps, polls >>

\* main, lines 313-315: build the object, install the SIGINT handler, print.
Install ==
    /\ Alive /\ pc = "install"
    /\ pc' = "open"
    /\ UNCHANGED << options, outfile, self, exc, handling, cancel_exit, args, exit_code,
                    status, procVars, histVars, sleeps, polls >>

\* OpenOutfile carrying on to the version query when open() fails.
OpenOutfile_IgnoreFailure ==
    /\ Alive /\ pc = "open"
    /\ \E ok \in BOOLEAN :
         /\ pc' = "ver_popen"
         /\ outfile' = IF self.subprocess_out = "-" THEN "stdout"
                       ELSE IF ok THEN "file" ELSE outfile
         /\ UNCHANGED << exc, status, handling >>
    /\ UNCHANGED << options, self, cancel_exit, args, exit_code,
                    procVars, histVars, sleeps, polls >>

\* transcode, lines 273-278: the redirection target; open() may fail.
OpenOutfile ==
    /\ Alive /\ pc = "open"
    /\ \E ok \in BOOLEAN :
         IF self.subprocess_out # "-" /\ ~ok
         THEN /\ Raise("OSError")
              /\ passed' = passed \cup {"open_raised"}
              /\ UNCHANGED outfile
         ELSE /\ pc' = "ver_popen"
              /\ outfile' = IF self.subprocess_out # "-" THEN "file" ELSE "stdout"
              /\ UNCHANGED << exc, status, handling, passed >>
    /\ UNCHANGED << options, self, cancel_exit, args, exit_code,
                    procVars, intrVars, sleeps, polls >>

\* get_ffencode_version, line 259: start `ffmpeg -version` (the engine may
\* be missing, and then Popen raises).
VersionPopen ==
    /\ Alive /\ pc = "ver_popen"
    /\ \E found \in BOOLEAN :
         IF found
         THEN /\ verChild' = "running"
              /\ pc' = "ver_communicate"
              /\ UNCHANGED << exc, status, handling >>
         ELSE /\ Raise("OSError")
              /\ UNCHANGED verChild
    /\ UNCHANGED << options, outfile, self, cancel_exit, args, exit_code, child,
                    child_code, ver_out, popenVars, histVars, sleeps, polls >>

\* The version child prints its banner and ends.
VersionChildExit ==
    /\ Alive /\ verChild = "running"
    /\ \E b \in Banners : ver_out' = b
    /\ verChild' = "zombie"
    /\ UNCHANGED << options, outfile, self, pc, exc, handling, cancel_exit, args,
                    exit_code, status, child, child_code, popenVars, histVars,
                    sleeps, polls >>

\* get_ffencode_version, line 260: communicate() reads the output to its
\* end and returns once the child has been reaped.
VersionCommunicate ==
    /\ Alive /\ pc = "ver_communicate" /\ verChild = "zombie"
    /\ verChild' = "reaped"
    /\ pc' = "ver_match"
    /\ UNCHANGED << options, outfile, self, exc, handling, cancel_exit, args,
                    exit_code, status, child, child_code, ver_out, popenVars,
                    histVars, sleeps, polls >>

\* get_ffencode_version, lines 262-270: ver is assigned only when the
\* pattern matches, so line 270 raises UnboundLocalError when it does not;
\* the decoding of line 267 raises UnicodeDecodeError on bytes that are not
\* UTF-8.
VersionStore ==
    /\ Alive /\ pc = "ver_match"
    /\ LET m == VersionMatch(ver_out)
       IN  IF m = None
           THEN /\ Raise("UnboundLocalError")
                /\ UNCHANGED self
           ELSE IF StoredVersion[ver_out] = None
           THEN /\ Raise("UnicodeDecodeError")
                /\ UNCHANGED self
           ELSE /\ self' = [self EXCEPT !.ffmpeg_ver = StoredVersion[ver_out]]
                /\ pc' = "gen_args"
                /\ UNCHANGED << exc, status, handling >>
    /\ UNCHANGED << options, outfile, cancel_exit, args, exit_code, procVars,
                    histVars, sleeps, polls >>

\* transcode, line 285, the call: gen_transcode_args up to its line 252,
\* where it stores the output file name in the object.
GenTranscodeArgs ==
    /\ Alive /\ pc = "gen_args"
    /\ self' = gen_transcode_args(self).self
    /\ passed' = passed \cup {"output_stored"}
    /\ pc' = "gen_return"
    /\ UNCHANGED << options, outfile, exc, handling, cancel_exit, args, exit_code,
                    status, procVars, intrVars, sleeps, polls >>

\* gen_transcode_args, lines 254-256, and the assignment of line 285: the
\* list is returned and becomes the local args of transcode.
GenTranscodeArgsReturn ==
    /\ Alive /\ pc = "gen_return"
    /\ args' = gen_transcode_args(self).args
    /\ pc' = "popen"
    /\ UNCHANGED << options, outfile, self, exc, handling, cancel_exit, exit_code,
                    status, procVars, histVars, sleeps, polls >>

\* transcode, line 287, the call: the child is started (or Popen raises).
TranscodePopen ==
    /\ Alive /\ pc = "popen"
    /\ \E found \in BOOLEAN :
         IF found
         THEN /\ child' = "running"
              /\ pc' = "assign_sp"
              /\ UNCHANGED << exc, status, handling >>
         ELSE /\ Raise("OSError")
              /\ UNCHANGED child
    /\ UNCHANGED << options, outfile, self, cancel_exit, args, exit_code, child_code,
                    verChild, ver_out, popenVars, histVars, sleeps, polls >>

\* transcode, line 287, the assignment: self.sp.
AssignSp ==
    /\ Alive /\ pc = "assign_sp"
    /\ self' = [self EXCEPT !.sp = Some("sp")]
    /\ pc' = "set_running"
    /\ UNCHANGED << options, outfile, exc, handling, cancel_exit, args, exit_code,
                    status, procVars, histVars, sleeps, polls >>

\* transcode, line 288: self.running = True.
SetRunning ==
    /\ Alive /\ pc = "set_running"
    /\ self' = [self EXCEPT !.running = Some(TRUE)]
    /\ pc' = "while"
    /\ UNCHANGED << options, outfile, exc, handling, cancel_exit, args, exit_code,
                    status, procVars, histVars, sleeps, polls >>

\* WhileTest with the ceiling test off by one.
WhileTest_OneMore ==
    /\ Alive /\ pc = "while"
    /\ IF self.running = Some(TRUE) /\ self.num_waits <= max_waits
       THEN /\ self' = [self EXCEPT !.num_waits = @ + 1]
            /\ pc' = "sleep"
       ELSE /\ pc' = "after_while"
            /\ UNCHANGED self
    /\ UNCHANGED << options, outfile, exc, handling, cancel_exit, args, exit_code,
                    status, procVars, histVars, sleeps, polls >>

\* WhileTest without the test of self.running.
WhileTest_IgnoreRunning ==
    /\ Alive /\ pc = "while"
    /\ IF self.num_waits < max_waits
       THEN /\ self' = [self EXCEPT !.num_waits = @ + 1]
            /\ pc' = "sleep"
       ELSE /\ pc' = "after_while"
            /\ UNCHANGED self
    /\ UNCHANGED << options, outfile, exc, handling, cancel_exit, args, exit_code,
                    status, procVars, histVars, sleeps, polls >>

\* transcode, lines 290-291: the loop test and the increment.
WhileTest ==
    /\ Alive /\ pc = "while"
    /\ IF self.running = Some(TRUE) /\ self.num_waits < max_waits
       THEN /\ self' = [self EXCEPT !.num_waits = @ + 1]
            /\ pc' = "sleep"
       ELSE /\ pc' = "after_while"
            /\ UNCHANGED self
    /\ UNCHANGED << options, outfile, exc, handling, cancel_exit, args, exit_code,
                    status, procVars, histVars, sleeps, polls >>

\* transcode, line 292.
Sleep ==
    /\ Alive /\ pc = "sleep"
    /\ sleeps' = sleeps + 1
    /\ pc' = "handle"
    /\ UNCHANGED << options, outfile, self, exc, handling, cancel_exit, args, exit_code,
                    status, procVars, histVars, polls >>

(***************************************************************************)
(* Popen.poll() as handle_subprocess (line 194) and Popen.kill() (line     *)
(* 184) run it: take the lock without blocking, waitpid without hanging,   *)
(* store the return code, release the lock.                                *)
(***************************************************************************)
\* handle_subprocess, lines 190-194, up to the lock of poll().  Without a
\* subprocess it calls cancel_transcode() with the default exit = True.  A
\* poll that finds the return code stored, or the lock taken, returns at
\* once.
HandleSubprocess ==
    /\ Alive /\ pc = "handle"
    /\ IF self.sp = None
       THEN /\ pc' = "cancel"
            /\ cancel_exit' = TRUE
            /\ UNCHANGED << lock, polls >>
       ELSE IF sp_returncode # None \/ lock
       THEN /\ pc' = "handle_polled"
            /\ polls' = polls + 1
            /\ UNCHANGED << lock, cancel_exit >>
       ELSE /\ pc' = "handle_locked"
            /\ lock' = TRUE
            /\ UNCHANGED << polls, cancel_exit >>
    /\ UNCHANGED << options, outfile, self, exc, handling, args, exit_code, status,
                    child, child_code, verChild, ver_out, sp_returncode, sts,
                    kill_called, kill_sent, histVars, sleeps >>

\* Popen._internal_poll: waitpid(pid, WNOHANG) under the lock.  A child that
\* has ended is reaped and its status returned; one that runs gives nothing;
\* one that is already reaped makes waitpid fail (ECHILD), for which Popen
\* takes the return code 0.
PollWaitpid ==
    /\ Alive /\ pc \in {"handle_locked", "kill_locked"}
    /\ sts' = IF child = "zombie" THEN child_code
              ELSE IF child = "reaped" THEN Some(0) ELSE None
    /\ child' = IF child = "zombie" THEN "reaped" ELSE child
    /\ pc' = IF pc = "handle_locked" THEN "handle_waited" ELSE "kill_waited"
    /\ UNCHANGED << options, outfile, self, exc, handling, cancel_exit, args,
                    exit_code, status, child_code, verChild, ver_out, sp_returncode,
                    lock, kill_called, kill_sent, histVars, sleeps, polls >>

\* Popen._internal_poll: the return code is stored and the lock released;
\* poll() returns.  kill() goes on to send the signal when the return code
\* is still unknown (send_signal).
PollStore ==
    /\ Alive /\ pc \in {"handle_waited", "kill_waited"}
    /\ sp_returncode' = sts
    /\ sts' = None
    /\ lock' = FALSE
    /\ IF pc = "handle_waited"
       THEN pc' = "handle_polled" /\ polls' = polls + 1
       ELSE /\ pc' = IF sts # None THEN "cancel_wait" ELSE "kill_signal"
            /\ UNCHANGED polls
    /\ UNCHANGED << options, outfile, self, exc, handling, cancel_exit, args,
                    exit_code, status, child, child_code, verChild, ver_out,
                    kill_called, kill_sent, histVars, sleeps >>

\* handle_subprocess, lines 196-197.
HandleReturncode ==
    /\ Alive /\ pc = "handle_polled"
    /\ IF sp_returncode # None
       THEN /\ self' = [self EXCEPT !.running = Some(FALSE)]
            /\ pc' = "handle_log"
       ELSE /\ pc' = "while"
            /\ UNCHANGED self
    /\ UNCHANGED << options, outfile, exc, handling, cancel_exit, args, exit_code,
                    status, procVars, histVars, sleeps, polls >>

\* HandleExitCode not keeping the return code.
HandleExitCode_DropCode ==
    /\ Alive /\ pc = "handle_log"
    /\ pc' = "while"
    /\ UNCHANGED << options, outfile, self, exc, handling, cancel_exit, args,
                    exit_code, status, procVars, histVars, sleeps, polls >>

\* handle_subprocess, lines 198-199.
HandleExitCode ==
    /\ Alive /\ pc = "handle_log"
    /\ self' = [self EXCEPT !.exit_code = sp_returncode]
    /\ pc' = "while"
    /\ UNCHANGED << options, outfile, exc, handling, cancel_exit, args, exit_code,
                    status, procVars, histVars, sleeps, polls >>

\* transcode, lines 296-299.
AfterWhile ==
    /\ Alive /\ pc = "after_while"
    /\ IF self.num_waits = max_waits
       THEN /\ Raise("Timeout")
            /\ passed' = passed \cup {"timeout_raised"}
            /\ UNCHANGED exit_code
       ELSE /\ exit_code' = self.exit_code
            /\ passed' = passed \cup {"returned"}
            /\ pc' = "returned"
            /\ UNCHANGED << exc, status, handling >>
    /\ UNCHANGED << options, outfile, self, cancel_exit, args, procVars, intrVars,
                    sleeps, polls >>

\* The exit status sys.exit(code) gives the process: None is 0, an integer
\* is taken modulo 256.
ExitStatus(code) == IF code = None THEN 0 ELSE TheVal(code) % 256

\* main, line 326: sys.exit(exit_code).
MainEnd ==
    /\ Alive /\ pc = "returned"
    /\ pc' = "exited"
    /\ status' = Some(ExitStatus(exit_code))
    /\ UNCHANGED << options, outfile, self, exc, handling, cancel_exit, args, exit_code,
                    procVars, histVars, sleeps, polls >>

\* Except calling cancel_transcode with its default exit = True.
Except_DefaultExit ==
    /\ Alive /\ pc = "except"
    /\ pc' = "cancel"
    /\ cancel_exit' = TRUE
    /\ UNCHANGED << options, outfile, self, exc, handling, args, exit_code, status,
                    procVars, histVars, sleeps, polls >>

\* main, lines 317-320: report, then call cancel_transcode(exit = False).
Except ==
    /\ Alive /\ pc = "except"
    /\ pc' = "cancel"
    /\ cancel_exit' = FALSE
    /\ UNCHANGED << options, outfile, self, exc, handling, args, exit_code, status,
                    procVars, histVars, sleeps, polls >>

\* CancelFinish exiting whatever the exit argument is.
CancelFinish_AlwaysExit ==
    pc' = "exited" /\ status' = Some(2)

\* cancel_transcode, lines 186-187 and the return to the caller (main
\* re-raises at line 321).
CancelFinish ==
    IF cancel_exit
    THEN pc' = "exited" /\ status' = Some(2)
    ELSE pc' = "reraise" /\ status' = status

\* CancelTranscode without the kill() before the wait().
CancelTranscode_NoKill ==
    /\ Alive /\ pc = "cancel"
    /\ IF self.sp # None
       THEN /\ pc' = "cancel_wait"
            /\ UNCHANGED status
       ELSE CancelFinish
    /\ UNCHANGED << options, outfile, self, exc, handling, cancel_exit, args,
                    exit_code, procVars, histVars, sleeps, polls >>

\* cancel_transcode, lines 180-184, up to the lock of the poll() that
\* Popen.kill() starts with (send_signal).  With the return code stored
\* kill() returns without a signal; with the lock taken the poll returns
\* nothing and the signal is sent.
CancelTranscode ==
    /\ Alive /\ pc = "cancel"
    /\ IF self.sp = None
       THEN /\ CancelFinish
            /\ UNCHANGED << kill_called, lock >>
       ELSE /\ kill_called' = TRUE
            /\ UNCHANGED status
            /\ IF sp_returncode # None
               THEN pc' = "cancel_wait" /\ UNCHANGED lock
               ELSE IF lock
               THEN pc' = "kill_signal" /\ UNCHANGED lock
               ELSE pc' = "kill_locked" /\ lock' = TRUE
    /\ UNCHANGED << options, outfile, self, exc, handling, cancel_exit, args, exit_code,
                    child, child_code, verChild, ver_out, sp_returncode, sts,
                    kill_sent, histVars, sleeps, polls >>

\* Popen.send_signal: os.kill(pid, SIGKILL).  A child that runs ends with
\* return code -9; one that has ended in the meantime is not affected.
KillSignal ==
    /\ Alive /\ pc = "kill_signal"
    /\ kill_sent' = TRUE
    /\ child' = IF child = "running" THEN "zombie" ELSE child
    /\ child_code' = IF child = "running" THEN Some(-9) ELSE child_code
    /\ pc' = "cancel_wait"
    /\ UNCHANGED << options, outfile, self, exc, handling, cancel_exit, args, exit_code,
                    status, verChild, ver_out, sp_returncode, lock, sts,
                    kill_called, histVars, sleeps, polls >>

\* cancel_transcode, line 185: wait() returns at once when the return code
\* is stored; otherwise it blocks for the lock and then in waitpid(pid, 0)
\* until the child has ended, and reaps it (ECHILD counts as 0).
CancelWait ==
    /\ Alive /\ pc = "cancel_wait"
    /\ IF sp_returncode # None
       THEN /\ CancelFinish
            /\ UNCHANGED << child, lock, sts >>
       ELSE /\ ~lock
            /\ child \in {"zombie", "reaped"}
            /\ lock' = TRUE
            /\ sts' = IF child = "zombie" THEN child_code ELSE Some(0)
            /\ child' = "reaped"
            /\ pc' = "wait_waited"
            /\ UNCHANGED status
    /\ UNCHANGED << options, outfile, self, exc, handling, cancel_exit, args, exit_code,
                    child_code, verChild, ver_out, sp_returncode, kill_called,
                    kill_sent, histVars, sleeps, polls >>

\* Popen._wait: the return code is stored, the lock released, wait()
\* returns; then lines 186-187.
WaitStore ==
    /\ Alive /\ pc = "wait_waited"
    /\ sp_returncode' = sts
    /\ sts' = None
    /\ lock' = FALSE
    /\ CancelFinish
    /\ UNCHANGED << options, outfile, self, exc, handling, cancel_exit, args, exit_code,
                    child, child_code, verChild, ver_out, kill_called, kill_sent,
                    histVars, sleeps, polls >>

\* main, line 321: the exception is unhandled, the interpreter exits with 1.
Reraise ==
    /\ Alive /\ pc = "reraise"
    /\ pc' = "exited"
    /\ status' = Some(1)
    /\ UNCHANGED << options, outfile, self, exc, handling, cancel_exit, args, exit_code,
                    procVars, histVars, sleeps, polls >>

(***************************************************************************)
(* The environment.                                                        *)
(***************************************************************************)
\* The transcode child ends, by itself or by a signal from outside.
ChildExit ==
    /\ Alive /\ child = "running"
    /\ \E c \in ExitCodes : child_code' = Some(c)
    /\ child' = "zombie"
    /\ UNCHANGED << options, outfile, self, pc, exc, handling, cancel_exit, args,
                    exit_code, status, verChild, ver_out, popenVars, histVars,
                    sleeps, polls >>

\* Positions at which the handler of line 314 is installed.
HandlerInstalled == pc \notin {"main", "install", "exited"}

\* SIGINT: signal_handler (lines 301-302) raises Exception in the main
\* thread, wherever it is.  Inside Popen a status that waitpid returned and
\* that is not stored yet is lost; the lock is released on the way out
\* (finally, with), except when the exception is raised right after the
\* lock of poll() was taken and before its try block is entered.
Interrupt ==
    /\ Alive /\ HandlerInstalled
    /\ interrupts < MaxInterrupts
    /\ interrupts' = interrupts + 1
    /\ intr_pc' = IF interrupts = 0 THEN pc ELSE intr_pc
    /\ intr_child' = IF interrupts = 0 THEN child ELSE intr_child
    /\ sts' = None
    /\ \E leak \in BOOLEAN :
         lock' = IF pc \in {"handle_locked", "kill_locked"} THEN leak
                 ELSE IF pc \in {"handle_waited", "kill_waited", "wait_waited"}
                 THEN FALSE ELSE lock
    /\ Raise("Signal")
    /\ UNCHANGED << options, outfile, self, cancel_exit, args, exit_code, child,
                    child_code, verChild, ver_out, sp_returncode, kill_called,
                    kill_sent, passed, sleeps, polls >>

Next ==
    \/ Main
    \/ Install
    \/ OpenOutfile
    \/ VersionPopen
    \/ VersionChildExit
    \/ VersionCommunicate
    \/ VersionStore
    \/ GenTranscodeArgs
    \/ GenTranscodeArgsReturn
    \/ TranscodePopen
    \/ AssignSp
    \/ SetRunning
    \/ WhileTest
    \/ Sleep
    \/ HandleSubprocess
    \/ PollWaitpid
    \/ PollStore
    \/ HandleReturncode
    \/ HandleExitCode
    \/ AfterWhile
    \/ MainEnd
    \/ Except
    \/ CancelTranscode
    \/ KillSignal
    \/ CancelWait
    \/ WaitStore
    \/ Reraise
    \/ ChildExit
    \/ Interrupt

Spec == Init /\ [][Next]_vars

\* The steps of the main thread of the supervising process.
MainThread ==
    \/ Main
    \/ Install
    \/ OpenOutfile
    \/ VersionPopen
    \/ VersionCommunicate
    \/ VersionStore
    \/ GenTranscodeArgs
    \/ GenTranscodeArgsReturn
    \/ TranscodePopen
    \/ AssignSp
    \/ SetRunning
    \/ WhileTest
    \/ Sleep
    \/ HandleSubprocess
    \/ PollWaitpid
    \/ PollStore
    \/ HandleReturncode
    \/ HandleExitCode
    \/ AfterWhile
    \/ MainEnd
    \/ Except
    \/ CancelTranscode
    \/ KillSignal
    \/ CancelWait
    \/ WaitStore
    \/ Reraise

\* The interpreter keeps running the main thread: a step of it that stays
\* possible is eventually taken (sleep returns, wait() returns once the
\* lock is free and the child has ended).  Nothing is assumed about the
\* children ending by themselves or about interrupts.
FairSpec == Spec /\ WF_vars(MainThread)

\* gen_transcode_args called as transcode calls it (line 285), for every
\* command line with an input file and every version that
\* get_ffencode_version can have stored.
BuilderInit ==
    /\ options \in { o \in OptionSets : o.input_file # "" }
    /\ ver_out \in { b \in Banners : StoredVersion[b] # None }
    /\ self = [NewFftranscode(options) EXCEPT !.ffmpeg_ver = StoredVersion[ver_out]]
    /\ pc = "gen_args"
    /\ exc = "none"
    /\ handling = FALSE
    /\ cancel_exit = FALSE
    /\ args = <<>>
    /\ outfile = IF options.subprocess_out_file # "-" THEN "file" ELSE "stdout"
    /\ exit_code = None
    /\ status = None
    /\ child = "none"
    /\ child_code = None
    /\ sp_returncode = None
    /\ lock = FALSE
    /\ sts = None
    /\ verChild = "reaped"
    /\ kill_called = FALSE
    /\ kill_sent = FALSE
    /\ interrupts = 0
    /\ intr_pc = "none"
    /\ intr_child = "none"
    /\ passed = {}
    /\ sleeps = 0
    /\ polls = 0

BuilderNext ==
    \/ GenTranscodeArgs
    \/ GenTranscodeArgsReturn

BuilderSpec == BuilderInit /\ [][BuilderNext]_vars

\* Positions of the polling loop of transcode (lines 290-294).
PollingPcs == { "while", "sleep", "handle", "handle_locked", "handle_waited",
                "handle_polled", "handle_log" }

\* The positions of transcode() in the order of its lines 273-297: a
\* failure raised at one of them reaches the except clause of main.
TranscodePcs ==
    << "open", "ver_popen", "ver_communicate", "ver_match", "gen_args",
       "gen_return", "popen", "assign_sp", "set_running", "while", "sleep",
       "handle", "handle_locked", "handle_waited", "handle_polled", "handle_log",
       "after_while" >>

\* transcode() has completed the step of position p when it is at position at.
Beyond(at, p) ==
    LET Index(q) == CHOOSE i \in 1..Len(TranscodePcs) : TranscodePcs[i] = q
    IN  Index(at) > Index(p)

\* What the supervision has come to when transcode() is at position at: n
\* is num_waits, run is self.running (once set), stored says that
\* self.sp.returncode is set, coded that self.exit_code is, ch is the state
\* of the child and lk that of the Popen lock.
CancelShapes(at) ==
    { sh \in [ n : 0..max_waits, run : BOOLEAN, stored : BOOLEAN, coded : BOOLEAN,
               ch : {"none", "running", "zombie", "reaped"}, lk : BOOLEAN ] :
        LET Counting == sh.run /\ ~sh.stored /\ ~sh.coded /\ ~sh.lk
                          /\ sh.ch \in {"running", "zombie"}
            Ended    == ~sh.run /\ sh.stored /\ sh.coded /\ ~sh.lk
                          /\ sh.ch = "reaped" /\ sh.n >= 1
        IN  IF ~Beyond(at, "popen")
            THEN sh.run /\ ~sh.stored /\ ~sh.coded /\ ~sh.lk
                   /\ sh.ch = "none" /\ sh.n = 0
            ELSE CASE at \in {"assign_sp", "set_running"} -> Counting /\ sh.n = 0
                   [] at = "while" -> Counting \/ Ended
                   [] at \in {"sleep", "handle"} -> Counting /\ sh.n >= 1
                   [] at = "handle_locked" ->
                        /\ sh.run /\ ~sh.stored /\ ~sh.coded /\ sh.n >= 1
                        /\ sh.ch \in {"running", "zombie"}
                   [] at = "handle_waited" ->
                        /\ sh.run /\ ~sh.stored /\ ~sh.coded /\ ~sh.lk /\ sh.n >= 1
                        /\ sh.ch \in {"running", "zombie", "reaped"}
                   [] at = "handle_polled" ->
                        /\ sh.run /\ ~sh.coded /\ ~sh.lk /\ sh.n >= 1
                        /\ IF sh.stored THEN sh.ch = "reaped"
                           ELSE sh.ch \in {"running", "zombie"}
                   [] at = "handle_log" ->
                        /\ ~sh.run /\ sh.stored /\ ~sh.coded /\ ~sh.lk /\ sh.n >= 1
                        /\ sh.ch = "reaped"
                   [] at = "after_while" -> Ended \/ (Counting /\ sh.n = max_waits) }

\* The failures that transcode() can raise at position at: the interrupt
\* anywhere, and what the statement of that position raises itself.
CancelFailures(at, sh, b) ==
    {"Signal"}
    \cup (IF at = "open" /\ options.subprocess_out_file # "-" THEN {"OSError"} ELSE {})
    \cup (IF at \in {"ver_popen", "popen"} THEN {"OSError"} ELSE {})
    \cup (IF at = "ver_match" /\ VersionMatch(b) = None
          THEN {"UnboundLocalError"} ELSE {})
    \cup (IF at = "ver_match" /\ VersionMatch(b) # None
             /\ ~Decodes(TheVal(VersionMatch(b)))
          THEN {"UnicodeDecodeError"} ELSE {})
    \cup (IF at = "after_while" /\ sh.n = max_waits THEN {"Timeout"} ELSE {})

\* cancel_transcode called as a method, in every state in which the program
\* enters it.  With exit = False the caller is the except clause of main
\* (line 320), handling a failure f that transcode() raised at position at:
\* the object, the children and the Popen object are what transcode() had
\* made of them by then (after an interrupt inside poll() the lock can be
\* left taken, or the child reaped without its return code stored).  With
\* exit = True it is a direct call on the same objects with no failure in
\* flight, as handle_subprocess makes it (line 192).
CancelInit ==
    /\ options \in { o \in RunOptionSets : o.input_file # "" }
    /\ cancel_exit \in BOOLEAN
    /\ pc = "cancel"
    /\ handling = ~cancel_exit
    /\ status = None
    /\ exit_code = None
    /\ sts = None
    /\ kill_called = FALSE
    /\ kill_sent = FALSE
    /\ \E at \in { TranscodePcs[i] : i \in 1..Len(TranscodePcs) } :
       \E sh \in CancelShapes(at) :
         /\ outfile = IF at = "open" THEN "unopened"
                      ELSE IF options.subprocess_out_file # "-" THEN "file"
                      ELSE "stdout"
         /\ verChild \in (IF at \in {"open", "ver_popen"} THEN {"none"}
                          ELSE IF at = "ver_communicate" THEN {"running", "zombie"}
                          ELSE {"reaped"})
         /\ ver_out \in (IF verChild \in {"none", "running"} THEN {""}
                         ELSE IF Beyond(at, "ver_match")
                         THEN { b \in Banners : StoredVersion[b] # None }
                         ELSE Banners)
         /\ \E f \in CancelFailures(at, sh, ver_out) :
              /\ cancel_exit => f = "Signal"
              /\ exc = IF cancel_exit THEN "none" ELSE f
              /\ interrupts = IF exc = "Signal" THEN 1 ELSE 0
              /\ intr_pc = IF exc = "Signal" THEN at ELSE "none"
              /\ intr_child \in (IF exc # "Signal" THEN {"none"}
                                 ELSE IF sh.ch = "zombie" THEN {"running", "zombie"}
                                 ELSE {sh.ch})
              /\ passed = (IF exc = "OSError" /\ at = "open"
                           THEN {"open_raised"} ELSE {})
                          \cup (IF Beyond(at, "gen_args")
                                THEN {"output_stored"} ELSE {})
                          \cup (IF exc = "Timeout" THEN {"timeout_raised"} ELSE {})
         /\ child = sh.ch
         /\ child_code \in (IF sh.ch \in {"none", "running"} THEN {None}
                            ELSE { Some(c) : c \in ExitCodes })
         /\ sp_returncode = IF sh.stored THEN child_code ELSE None
         /\ lock = sh.lk
         /\ LET s0 == NewFftranscode(options)
                s1 == IF Beyond(at, "ver_match")
                      THEN [s0 EXCEPT !.ffmpeg_ver = StoredVersion[ver_out]]
                      ELSE s0
                s2 == IF Beyond(at, "gen_args") THEN gen_transcode_args(s1).self ELSE s1
                s3 == IF Beyond(at, "assign_sp") THEN [s2 EXCEPT !.sp = Some("sp")] ELSE s2
                s4 == IF Beyond(at, "set_running")
                      THEN [s3 EXCEPT !.running = Some(sh.run),
                                      !.num_waits = sh.n,
                                      !.exit_code = IF sh.coded THEN child_code ELSE None]
                      ELSE s3
            IN  /\ self = s4
                /\ args = IF Beyond(at, "gen_return")
                          THEN gen_transcode_args(s2).args ELSE <<>>
         /\ sleeps = sh.n - (IF at = "sleep" THEN 1 ELSE 0)
         /\ polls = sh.n - (IF at \in {"sleep", "handle", "handle_locked",
                                      "handle_waited"} THEN 1 ELSE 0)

CancelNext ==
    \/ CancelTranscode
    \/ PollWaitpid
    \/ PollStore
    \/ KillSignal
    \/ CancelWait
    \/ WaitStore
    \/ Reraise
    \/ ChildExit

CancelSpec == CancelInit /\ [][CancelNext]_vars

TypeOK ==
    /\ options \in OptionSets
    /\ pc \in { "main", "install", "open", "ver_popen", "ver_communicate",
                "ver_match", "gen_args", "gen_return", "popen", "assign_sp",
                "set_running", "while", "sleep", "handle", "handle_locked",
                "handle_waited", "handle_polled", "handle_log", "after_while",
                "returned", "except", "cancel", "kill_locked", "kill_waited",
                "kill_signal", "cancel_wait", "wait_waited", "reraise", "exited" }
    /\ exc \in { "none", "OSError", "UnboundLocalError", "UnicodeDecodeError",
                 "Timeout", "Signal" }
    /\ status \in {None, Some(1), Some(2)} \cup { Some(c % 256) : c \in ExitCodes }
    /\ child \in {"none", "running", "zombie", "reaped"}
    /\ verChild \in {"none", "running", "zombie", "reaped"}
    /\ outfile \in {"unopened", "stdout", "file"}
    /\ lock \in BOOLEAN /\ kill_called \in BOOLEAN /\ kill_sent \in BOOLEAN
    /\ sts \in {None} \cup { Some(c) : c \in ExitCodes }
    /\ sp_returncode \in {None} \cup { Some(c) : c \in ExitCodes }
    /\ self.num_waits \in 0..max_waits
    /\ interrupts \in 0..MaxInterrupts
    /\ passed \subseteq {"open_raised", "output_stored", "timeout_raised", "returned"}

(***************************************************************************)
(* Properties.                                                             *)
(***************************************************************************)
\* Positions inside cancel_transcode (lines 179-187).
CancelPcs == { "cancel", "kill_locked", "kill_waited", "kill_signal",
               "cancel_wait", "wait_waited" }

\* Positions after transcode() has returned or raised.
AfterTranscodePcs == {"returned", "except", "reraise", "exited"} \cup CancelPcs

\* A poll of the loop has seen the child ended.
ObservedExit == self.running = Some(FALSE)

Exited == status # None

\* transcode() has raised the timeout failure of line 297.
TimedOut == "timeout_raised" \in passed

\* C1: once a poll of iteration k (1 <= k <= max_waits) has observed the
\* child's exit with code c, transcode() returns c and raises nothing; the
\* timeout failure is raised only while the child still counts as running.
C1_ExitCodeReturnedVerbatim ==
    /\ (TimedOut => self.running = Some(TRUE))
    /\ (ObservedExit /\ interrupts = 0 /\ pc \in AfterTranscodePcs)
         => (exc = "none" /\ exit_code # None /\ exit_code = child_code)

\* C2: if none of the max_waits polls sees the child ended, transcode() has
\* done exactly max_waits sleep-then-poll iterations and then raises the
\* timeout failure instead of returning an exit code; the timeout failure is
\* never raised after fewer iterations.
C2_TimeoutAfterCeiling ==
    /\ (polls = max_waits /\ sp_returncode = None /\ interrupts = 0)
         => /\ pc \in {"handle_polled", "while", "after_while"} \/ exc = "Timeout"
            /\ pc # "returned"
            /\ exit_code = None
            /\ self.running = Some(TRUE)
            /\ sleeps = max_waits
            /\ self.num_waits = max_waits
    /\ (pc = "after_while" /\ self.running = Some(TRUE)) => polls = max_waits
    /\ (exc = "Timeout") => (polls = max_waits /\ sleeps = max_waits /\ exit_code = None)

C2_Witness ==
    /\ Exited /\ exc = "Timeout" /\ self.running = Some(TRUE) /\ kill_sent
    /\ polls = max_waits /\ sleeps = max_waits /\ interrupts = 0

\* C3: in a run whose interrupt is delivered during the polling loop while
\* the transcode child is running, self.sp.kill() is called and the child
\* is reaped by wait(), and only then does the supervising process exit.
C3_InterruptKillsAndReaps ==
    /\ []((Exited /\ interrupts = 1 /\ intr_pc \in PollingPcs /\ intr_child = "running")
            => (kill_called /\ child = "reaped"))
    /\ (interrupts = 1 /\ intr_pc \in PollingPcs /\ intr_child = "running")
         ~> (interrupts > 1 \/ (Exited /\ kill_called /\ child = "reaped"))

\* C4 as stated: after an interrupt during the polling loop the supervising
\* process exits with the cancellation status 2.
C4_InterruptExitsWith2 ==
    (Exited /\ interrupts >= 1 /\ intr_pc \in PollingPcs) => status = Some(2)

\* C4, amended: after an interrupt during the polling loop the supervising
\* process exits with status 1, the status of the unhandled failure that
\* main re-raises, and never with the cancellation status 2.
C4_InterruptExitsUnhandled ==
    (Exited /\ interrupts >= 1 /\ intr_pc \in PollingPcs)
      => (status = Some(1) /\ exc = "Signal")

C4_Witness ==
    /\ Exited /\ interrupts = 1 /\ intr_pc = "handle" /\ intr_child = "running"
    /\ kill_called /\ kill_sent /\ child = "reaped" /\ status = Some(1)

\* C5: whenever the supervising process has exited, no child it spawned
\* (the version query or the transcode) is still running.
C5_NoOrphan ==
    Exited => (child # "running" /\ verChild # "running")

\* C6: when the version output does not match the banner pattern,
\* get_ffencode_version raises nothing, the version stays undefined and
\* transcode() goes on to build the arguments and spawn the child.
C6_VersionMissNotFatal ==
    (verChild = "reaped" /\ VersionMatch(ver_out) = None /\ interrupts = 0)
      => (exc = "none" /\ pc \notin {"except", "reraise"} \cup CancelPcs)

\* C7: with an empty input file option the process exits with status 1 and
\* neither the version query nor the transcode child is ever spawned.
C7_MissingInputExits1 ==
    options.input_file = ""
      => /\ child = "none" /\ verChild = "none"
         /\ pc \in {"main", "exited"}
         /\ (pc = "exited" <=> status = Some(1))
         /\ status \in {None, Some(1)}

C7_Witness ==
    options.input_file = "" /\ pc = "exited" /\ status = Some(1)

\* The output path gen_transcode_args resolves: the configured one when it
\* is non-empty, the generated name otherwise.
ResolvedOutput ==
    IF options.output_file # "" THEN options.output_file
    ELSE gen_output_file_name(self)

Built == args # <<>>

\* C8: for every configuration the last element of the argv built by
\* gen_transcode_args is the resolved output path.
C8_ArgvEndsWithOutput ==
    Built => args[Len(args)] = ResolvedOutput

C8_Witness ==
    /\ Built /\ options.output_file = "" /\ options.interactive = FALSE
    /\ options.extra = "-x 1 -y 2" /\ options.tune = "film"
    /\ self.ffmpeg_ver = Some("6.0")
    /\ args[Len(args)] = "movie - ffmpeg:6.0_c:libx264_p:High_l:6.2_r:9_f:17_t:film.mkv"

\* Number of positions of the sequence a that hold the token t.
Count(a, t) == Cardinality({ i \in 1..Len(a) : a[i] = t })

\* Index of the crf value, the last of the codec-level arguments.
CrfEnd == Len(BaseArgs(self)) + (IF options.not_nice THEN 0 ELSE 1)

\* C9 as stated: with an empty tune no '-tune' appears anywhere in argv, with
\* a non-empty tune exactly one '-tune' appears, immediately followed by the
\* tune value.
C9_TuneFlag ==
    Built =>
      IF options.tune = ""
      THEN Count(args, "-tune") = 0
      ELSE /\ Count(args, "-tune") = 1
           /\ \A i \in 1..Len(args) :
                args[i] = "-tune" => (i < Len(args) /\ args[i + 1] = options.tune)

\* The values the configuration supplies to argv verbatim.
SuppliedValues ==
    << options.input_file, options.codec, options.profile, options.level,
       options.preset, options.crf >>
    \o (IF options.tune # "" THEN <<options.tune>> ELSE <<>>)
    \o split(options.extra)
    \o <<ResolvedOutput>>

\* C9, amended: argv holds exactly as many '-tune' tokens as the
\* configuration values (the tokens of extra, the tune value, the paths and
\* codec settings) supply verbatim, plus one when tune is non-empty; that
\* one directly follows the crf value and is immediately followed by the
\* tune value.
C9_TuneFlagAmended ==
    Built =>
      /\ Count(args, "-tune")
           = Count(SuppliedValues, "-tune") + (IF options.tune = "" THEN 0 ELSE 1)
      /\ options.tune # "" =>
           (args[CrfEnd + 1] = "-tune" /\ args[CrfEnd + 2] = options.tune)

C9_Witness ==
    /\ Built /\ options.tune = "film" /\ options.extra = "-tune grain"
    /\ Count(args, "-tune") = 2
    /\ args[CrfEnd + 1] = "-tune" /\ args[CrfEnd + 2] = "film"

\* Index of the last argument before the tokens of extra.
ExtraStart == CrfEnd + (IF options.tune # "" THEN 2 ELSE 0)

\* C10: the whitespace-separated tokens of extra appear in argv verbatim, in
\* order and contiguously, right after the codec-level flags (and the tune
\* flag and value when present) and before the output path; an empty extra
\* (or one without tokens) adds nothing.
C10_ExtraTokens ==
    Built =>
      LET toks == split(options.extra)
          n    == Len(toks)
      IN  /\ SubSeq(args, ExtraStart + 1, ExtraStart + n) = toks
          /\ Len(args) = ExtraStart + n + (IF options.interactive THEN 0 ELSE 1) + 1
          /\ args[Len(args)] = ResolvedOutput
          /\ options.extra = "" => n = 0
          /\ options.extra = "-x 1 -y 2"
               => SubSeq(args, ExtraStart + 1, ExtraStart + 4) = <<"-x", "1", "-y", "2">>
          /\ options.extra = "-p\r9\f"
               => SubSeq(args, ExtraStart + 1, ExtraStart + 2) = <<"-p", "9">>
          /\ options.extra = "-q7 -z"
               => SubSeq(args, ExtraStart + 1, ExtraStart + 3) = <<"-q", "7", "-z">>

C10_Witness ==
    /\ Built /\ options.extra = "-x 1 -y 2" /\ options.tune = "film"
    /\ options.interactive = FALSE
    /\ args[ExtraStart] = "film" /\ args[ExtraStart + 1] = "-x"
    /\ args[ExtraStart + 4] = "2" /\ args[ExtraStart + 5] = "-nostdin"

\* The object as main constructed it, with the scheduling wrapper off.
UnnicedConfig == [NewFftranscode(options) EXCEPT !.niced = FALSE,
                                                 !.ffmpeg_ver = self.ffmpeg_ver]

\* C11: with niced true argv[0] is 'nice' and the rest of argv is the argv
\* built for the same configuration with niced false; with niced false no
\* wrapper is prepended and argv starts with the engine.
C11_NiceWrapper ==
    Built =>
      IF options.not_nice
      THEN /\ args[1] = "ffmpeg"
           /\ Count(args, "nice") = 0
           /\ args = gen_transcode_args(UnnicedConfig).args
      ELSE /\ args[1] = "nice"
           /\ args[2] = "ffmpeg"
           /\ Count(args, "nice") = 1
           /\ Tail(args) = gen_transcode_args(UnnicedConfig).args

C11_Witness ==
    /\ Built /\ ~options.not_nice /\ options.tune = "film"
    /\ args[1] = "nice" /\ args[2] = "ffmpeg" /\ args[5] = "-i"
    /\ args[6] = options.input_file

\* The text before ".mkv" of a generated name, without the tune segment.
NameStem ==
    StripLast4(options.input_file) \o " - ffmpeg:" \o TheVal(self.ffmpeg_ver)
      \o "_c:" \o options.codec \o "_p:" \o options.profile
      \o "_l:" \o options.level \o "_r:" \o options.preset
      \o "_f:" \o options.crf

\* C12: the generated output name is the input path without its last 4
\* characters, then " - ffmpeg:<ver>_c:<codec>_p:<profile>_l:<level>_r:<preset>_f:<crf>",
\* then "_t:<tune>" exactly when tune is non-empty, then ".mkv".
C12_GeneratedName ==
    (Built /\ options.output_file = "") =>
      /\ self.output_file
           = NameStem \o (IF options.tune # "" THEN "_t:" \o options.tune ELSE "")
               \o ".mkv"
      /\ args[Len(args)] = self.output_file
      /\ (options.input_file = "movie.mp4" /\ self.ffmpeg_ver = Some("6.0")
            /\ options.tune = "")
           => self.output_file = "movie - ffmpeg:6.0_c:libx264_p:High_l:6.2_r:9_f:17.mkv"
      /\ (options.input_file = "clip.mpeg" /\ self.ffmpeg_ver = Some("6.0")
            /\ options.tune = "film")
           => self.output_file
                = "clip. - ffmpeg:6.0_c:libx264_p:High_l:6.2_r:9_f:17_t:film.mkv"

C12_Witness ==
    /\ Built /\ options.output_file = "" /\ options.input_file = "movie.mp4"
    /\ options.tune = ""
    /\ self.output_file = "movie - ffmpeg:6.0_c:libx264_p:High_l:6.2_r:9_f:17.mkv"

\* The lifecycle states of the supervisor: Running is self.running = True
\* (line 288), Exited is self.running = False (line 197), TimedOut is the
\* failure of line 297 having been raised, Cancelled is a first interrupt
\* that arrived in the polling loop (lines 290-294) while the child still
\* counted as running (no later step changes self.running).
TerminalStates ==
    (IF ObservedExit THEN {"Exited"} ELSE {})
    \cup (IF TimedOut THEN {"TimedOut"} ELSE {})
    \cup (IF interrupts >= 1 /\ intr_pc \in PollingPcs /\ self.running = Some(TRUE)
          THEN {"Cancelled"} ELSE {})

\* C13: the lifecycle is NotStarted -> Running -> exactly one of Exited,
\* Cancelled, TimedOut: Running is entered only once the child is spawned,
\* a terminal state only from Running, and a run is never in two terminal
\* states (in particular never both Exited and TimedOut).
C13_Lifecycle ==
    /\ self.running # None => (self.sp # None /\ child # "none")
    /\ TerminalStates # {} => self.running # None
    /\ Cardinality(TerminalStates) <= 1

\* C14: 0 <= num_waits <= max_waits in every state; num_waits never
\* decreases and grows by exactly 1 per polling iteration (it is the number
\* of polls, plus one inside an iteration), and only at the loop test while
\* the child counts as running and the ceiling has not been reached.
C14_NumWaits ==
    /\ [](/\ self.num_waits \in 0..max_waits
          /\ polls <= self.num_waits /\ self.num_waits <= polls + 1
          /\ sleeps <= self.num_waits /\ polls <= sleeps)
    /\ [][ \/ self'.num_waits = self.num_waits
           \/ /\ self'.num_waits = self.num_waits + 1
              /\ pc = "while" /\ pc' = "sleep"
              /\ self.running = Some(TRUE)
              /\ self.num_waits < max_waits
              /\ polls = self.num_waits ]_vars

C14_Witness ==
    /\ self.num_waits = max_waits /\ polls = max_waits - 1 /\ pc = "handle"
    /\ self.running = Some(TRUE)

\* C15: whatever the child does, once it is spawned the polling loop ends,
\* after at most max_waits iterations, and the run reaches a terminal
\* outcome: the process exits after an exit code was returned, the timeout
\* failure was raised or an interrupt cancelled it.
C15_Terminates ==
    /\ (child # "none")
         ~> (pc \notin PollingPcs \cup {"popen", "assign_sp", "set_running"})
    /\ (child # "none")
         ~> (Exited /\ (exit_code # None \/ exc \in {"Timeout", "Signal"}))
    /\ [](polls <= max_waits /\ sleeps <= max_waits)

\* The step of cancel_transcode that sends SIGKILL.
KillStep == ~kill_sent /\ kill_sent'

\* C16 as stated: cancel_transcode sends the kill signal if and only if a
\* child is recorded in self.sp and has not exited, and then it neither
\* returns nor exits before the child is reaped; without a recorded child,
\* or with one that has already exited, no signal is sent.
C16_CancelKills ==
    /\ [][ KillStep => (self.sp # None /\ child = "running") ]_vars
    /\ []((pc \in {"cancel_wait", "wait_waited"} /\ ~kill_sent) => child # "running")
    /\ []((kill_sent /\ (pc = "reraise" \/ status = Some(2))) => child = "reaped")

\* C16, amended: cancel_transcode calls kill() exactly when a subprocess is
\* recorded in self.sp; kill() sends the signal exactly when the return
\* code is still unknown to the Popen object after its poll (a child that
\* has ended since, or whose end the poll could not read, is signalled all
\* the same, and one the poll found ended is not); a running child that is
\* signalled ends with -9; cancel_transcode neither returns nor exits
\* before the return code is stored and the child reaped.
C16_CancelKillsUnlessKnownEnded ==
    /\ [][ KillStep => (/\ pc = "kill_signal" /\ pc' = "cancel_wait"
                        /\ self.sp # None /\ kill_called
                        /\ sp_returncode = None
                        /\ child # "none"
                        /\ (child = "running"
                              => (child' = "zombie" /\ child_code' = Some(-9)))
                        /\ (child # "running"
                              => (child' = child /\ child_code' = child_code))) ]_vars
    /\ [](kill_called => self.sp # None)
    /\ []((pc \in {"cancel_wait", "wait_waited"})
            => (kill_called /\ (kill_sent \/ sp_returncode # None)))
    /\ []((pc \in {"cancel_wait", "wait_waited"} /\ ~kill_sent)
            => child = "reaped")
    /\ []((self.sp # None /\ (pc = "reraise" \/ status = Some(2)))
            => (kill_called /\ child = "reaped" /\ sp_returncode # None))

C16_Witness ==
    /\ pc = "reraise" /\ kill_sent /\ kill_called /\ child = "reaped"
    /\ sp_returncode = Some(137) /\ child_code = Some(137)

\* C17: cancel_transcode with exit requested ends the supervising process
\* with status 2, and only after the kill-and-reap cleanup; without it the
\* call returns to its caller without exiting and the failure being handled
\* is the one that reaches the top level.
C17_CancelExit ==
    /\ [](status = Some(2)
            => (cancel_exit /\ (self.sp # None => (kill_called /\ child = "reaped"))))
    /\ [](cancel_exit
            => (pc \in CancelPcs \cup {"exited"}
                /\ (pc = "exited" => status = Some(2))))
    /\ [](~cancel_exit
            => (/\ pc \in CancelPcs \cup {"reraise", "exited"}
                /\ (pc = "exited" <=> status = Some(1))
                /\ status \in {None, Some(1)}
                /\ (pc \in {"reraise", "exited"} /\ self.sp # None
                      => (kill_called /\ child = "reaped"))))
    /\ [][exc' = exc]_vars

C17_Witness ==
    /\ cancel_exit /\ pc = "exited" /\ status = Some(2)
    /\ kill_sent /\ kill_called /\ child = "reaped" /\ sp_returncode = Some(-9)

\* open() of the redirection file failed (line 274).
OpenFailed == "open_raised" \in passed

\* C18: transcode() resolves the redirection target, then queries the engine
\* version, then builds argv, then spawns the transcode child, then polls;
\* when opening the redirection file fails the failure is fatal for the
\* caller (exit status 1) and neither the version child nor the transcode
\* child has been spawned.
C18_StepOrder ==
    /\ verChild # "none" => outfile # "unopened"
    /\ Built => (verChild = "reaped" /\ self.ffmpeg_ver # None)
    /\ child # "none" => Built
    /\ (polls > 0 \/ sleeps > 0 \/ self.num_waits > 0)
         => (child # "none" /\ self.sp # None)
    /\ OpenFailed
         => (/\ self.subprocess_out # "-"
             /\ verChild = "none" /\ child = "none" /\ ~Built /\ ~kill_called
             /\ pc \in {"except", "cancel", "reraise", "exited"}
             /\ status \in {None, Some(1)})

C18_Witness ==
    /\ OpenFailed /\ Exited /\ status = Some(1) /\ interrupts = 0
    /\ verChild = "none" /\ child = "none"

\* The configuration fields of the object other than the output path, as
\* __init__ stores them (lines 156-167).
ConfigSansOutput(s) ==
    [ niced |-> s.niced, input_file |-> s.input_file, codec_lib |-> s.codec_lib,
      profile |-> s.profile, level |-> s.level, preset |-> s.preset,
      crf |-> s.crf, tune |-> s.tune, extra |-> s.extra,
      subprocess_out |-> s.subprocess_out, interactive |-> s.interactive ]

\* C19: building the arguments never changes the configuration: every
\* configuration field, the output path included even when it was supplied
\* empty, has the value the object was constructed with.
C19_ConfigNeverMutated ==
    /\ ConfigSansOutput(self) = ConfigSansOutput(NewFftranscode(options))
    /\ self.output_file = options.output_file

\* gen_transcode_args has passed its line 252.
BuilderRan == "output_stored" \in passed

\* C19 as the code has it: every field but the output path keeps its
\* constructed value; the output path keeps it when it was supplied
\* non-empty, and when it was supplied empty the builder stores the
\* generated name in it (line 252), the name it appends to argv.
C19_ConfigMutatedOnlyWhenEmpty ==
    /\ ConfigSansOutput(self) = ConfigSansOutput(NewFftranscode(options))
    /\ (options.output_file # "" \/ ~BuilderRan)
         => self.output_file = options.output_file
    /\ (options.output_file = "" /\ BuilderRan)
         => (/\ self.output_file = gen_output_file_name(self)
             /\ self.output_file # "")
    /\ Built => (BuilderRan /\ self.output_file = args[Len(args)])

C19_Witness ==
    /\ Built /\ options.output_file = "" /\ self.output_file # ""
    /\ self.output_file = gen_output_file_name(self)

\* transcode() has returned to main without raising: line 299 was reached
\* and line 316 assigned the value.
ReturnedNormally == "returned" \in passed

\* C20: whenever transcode() has returned normally the exit code it
\* returned is defined and is the return code the child reported at the poll
\* that saw it exit; the exit status main then gives is that code (modulo
\* 256), or 1 when an interrupt is raised before sys.exit, never one made
\* from an unset exit code.
C20_ReturnedCodeDefined ==
    /\ ReturnedNormally
         => (/\ exit_code # None
             /\ exit_code = self.exit_code
             /\ exit_code = sp_returncode
             /\ exit_code = child_code
             /\ ObservedExit /\ child = "reaped"
             /\ self.num_waits < max_waits)
    /\ (ReturnedNormally /\ Exited)
         => /\ exit_code # None
            /\ status = IF exc = "none" THEN Some(TheVal(exit_code) % 256) ELSE Some(1)
            /\ exc \in {"none", "Signal"}
    /\ exit_code # None => ReturnedNormally
    /\ ReturnedNormally => pc \in {"returned", "exited"}

C20_Witness ==
    /\ ReturnedNormally /\ Exited /\ exit_code = Some(137) /\ status = Some(137)
    /\ sp_returncode = Some(137) /\ polls >= 1

====
